---------------------------- MODULE Spec2Model ----------------------------
(***************************************************************************)
(* ZenParticles: the procedural shape generator (utils/math.ts), the       *)
(* particle system's morph/animate frame step (components/ParticleSystem)  *)
(* and the gesture slot fed by the Gemini gesture service (App.tsx,        *)
(* services/geminiService).                                                *)
(*                                                                         *)
(* Numbers.  Coordinates live in Float32Array buffers.  A coordinate is    *)
(* modelled as an integer count of Units, Scale Units to 1.0, and a store  *)
(* into the buffer rounds to the nearest Unit, ties to even, as a float32  *)
(* store does.  Read with Unit = the float32 spacing of the binade the     *)
(* values lie in, RoundHalfEven(10*p + (t - p), 10) is bit-for-bit the     *)
(* result of `p += (t - p) * 0.1` on a Float32Array element.               *)
(***************************************************************************)
EXTENDS Integers, Sequences, FiniteSets, TLC

(***************************************************************************)
(* Bounds of the model.                                                    *)
(***************************************************************************)
\* particles of the particle system (15000 in the source, scaled down)
count == 2
\* generatePositions is explored for every count in -1 .. MaxCount
MaxCount == 6
\* frame steps explored per run (caps the accumulated rotation)
MaxFrames == 2
\* function calls carried by one tool-call message
MaxCalls == 2
\* elapsed-time values (whole seconds) 0 .. MaxTime handed to a frame
MaxTime == 1
\* starting distances explored by the easing-only specification
LerpSpan == 12
\* connect() calls explored on one GeminiGestureService
MaxSessions == 2

\* fixed-point resolution: Units per 1.0
Scale == 10^3
\* resolution of the direction and square-root tables
DirScale == 10^4

(***************************************************************************)
(* Arithmetic helpers.                                                     *)
(***************************************************************************)
Abs(x) == IF x < 0 THEN -x ELSE x

\* num/den (den > 0) rounded to the nearest integer, ties to even: the
\* rounding of a store into a Float32Array element.
RoundHalfEven(num, den) ==
    LET q == num \div den
        r == num % den
    IN  IF 2 * r < den THEN q
        ELSE IF 2 * r > den THEN q + 1
        ELSE IF q % 2 = 0 THEN q ELSE q + 1

Zeros(n) == [s \in 1..n |-> 0]

(***************************************************************************)
(* Math.random().  A call returns r in [0,1); the model draws r = q/4 with  *)
(* q in 0..3 from a stream fixed by a seed: the n-th call of a run with    *)
(* seed <<start, step>> returns (start + n*step) % 4.                      *)
(***************************************************************************)
Seeds == {<<0, 1>>, <<1, 3>>}

Random(seed, n) == (seed[1] + n * seed[2]) % 4

\* sin and cos of q quarter turns (angle = r * 2 * PI with r = q/4)
SinQ(q) == CASE q % 4 = 0 -> 0 [] q % 4 = 1 -> 1 [] q % 4 = 2 -> 0 [] OTHER -> -1
CosQ(q) == CASE q % 4 = 0 -> 1 [] q % 4 = 1 -> 0 [] q % 4 = 2 -> -1 [] OTHER -> 0

\* DirScale * sin, cos of q eighth turns (angle = r * PI with r = q/4)
Sin8(q) == CASE q = 0 -> 0 [] q = 1 -> 7071 [] q = 2 -> 10000 [] OTHER -> 7071
Cos8(q) == CASE q = 0 -> 10000 [] q = 1 -> 7071 [] q = 2 -> 0 [] OTHER -> -7071

\* DirScale * Math.pow(r, 0.5) for r = q/4
SqrtQ(q) == CASE q = 0 -> 0 [] q = 1 -> 5000 [] q = 2 -> 7071 [] OTHER -> 8660

(***************************************************************************)
(* The deterministic per-index terms of generatePositions, evaluated as    *)
(* the source evaluates them (IEEE double) for count in 1..8 and index     *)
(* i in 0..count-1; Tab[count][i+1].                                       *)
(*   SphereDir: DirScale * <<sin(phi)cos(theta), sin(phi)sin(theta),       *)
(*              cos(phi)>>, phi = acos(-1 + 2i/count),                     *)
(*              theta = sqrt(count*PI) * phi                               *)
(*   FlowerTab: Scale * <<x, y, z>> of the FLOWER case                     *)
(*   LegsTab:   Scale * <<sin(legT)*12, cos(legT)*8>>,                     *)
(*              legT = (i/count - 0.3) * 10                                *)
(***************************************************************************)
SphereDir ==
    <<
       <<<<0, 0, -10000>>>>,
       <<<<0, 0, -10000>>, <<-6997, -7144, 0>>>>,
       <<<<0, 0, -10000>>, <<8618, -3824, -3333>>, <<-7577, -5611, 3333>>>>,
       <<<<0, 0, -10000>>, <<3607, 7874, -5000>>, <<7552, -6555, 0>>, <<-7288, -4678, 5000>>>>,
       <<<<0, 0, -10000>>, <<-6375, 4834, -6000>>, <<7233, 6610, -2000>>, <<6425, -7397, 2000>>, <<-6888, -4069, 6000>>>>,
       <<<<0, 0, -10000>>, <<-6302, -3979, -6667>>, <<-4026, 8525, -3333>>, <<8595, 5112, 0>>, <<5569, -7607, 3333>>, <<-6505, -3639, 6667>>>>,
       <<<<0, 0, -10000>>, <<710, -6962, -7143>>, <<-9034, -167, -4286>>, <<-1815, 9730, -1429>>, <<9074, 3952, 1429>>, <<4927, -7573, 4286>>, <<-6163, -3316, 7143>>>>,
       <<<<0, 0, -10000>>, <<5984, -2817, -7500>>, <<-4120, -7617, -5000>>, <<-9297, 2706, -2500>>, <<-208, 9998, 0>>, <<9176, 3090, 2500>>, <<4434, -7439, 5000>>, <<-5862, -3064, 7500>>>>
    >>

FlowerTab ==
    <<
       <<<<0, 0, 0>>>>,
       <<<<0, 0, 0>>, <<-7820, 7166, -1661>>>>,
       <<<<0, 0, 0>>, <<-6385, 5851, -1856>>, <<1067, -12201, -318>>>>,
       <<<<0, 0, 0>>, <<-5530, 5067, -1143>>, <<924, -10566, -1661>>, <<7908, 10306, 421>>>>,
       <<<<0, 0, 0>>, <<-4946, 4532, -422>>, <<827, -9451, -1999>>, <<7073, 9218, -912>>, <<-13213, -2330, 825>>>>,
       <<<<0, 0, 0>>, <<-4515, 4137, 159>>, <<755, -8627, -1856>>, <<6457, 8415, -1661>>, <<-12061, -2127, -318>>, <<11549, -7357, 1068>>>>,
       <<<<0, 0, 0>>, <<-4180, 3830, 604>>, <<699, -7987, -1525>>, <<5978, 7791, -1961>>, <<-11167, -1969, -1152>>, <<10692, -6812, 111>>, <<-3594, 13414, 1227>>>>,
       <<<<0, 0, 0>>, <<-3910, 3583, 941>>, <<654, -7471, -1143>>, <<5592, 7287, -1986>>, <<-10445, -1842, -1661>>, <<10001, -6372, -693>>, <<-3362, 12548, 421>>, <<-6479, -12446, 1337>>>>
    >>

LegsTab ==
    <<
       <<<<-1693, -7920>>>>,
       <<<<-1693, -7920>>, <<10912, -3329>>>>,
       <<<<-1693, -7920>>, <<3926, 7560>>, <<-6015, -6922>>>>,
       <<<<-1693, -7920>>, <<-5753, 7021>>, <<10912, -3329>>, <<-11730, -1686>>>>,
       <<<<-1693, -7920>>, <<-10098, 4322>>, <<10098, 4322>>, <<1693, -7920>>, <<-11507, 2269>>>>,
       <<<<-1693, -7920>>, <<-11663, 1882>>, <<3926, 7560>>, <<10912, -3329>>, <<-6015, -6922>>, <<-9760, 4654>>>>,
       <<<<-1693, -7920>>, <<-12000, -5>>, <<-1708, 7919>>, <<11516, 2250>>, <<4973, -7281>>, <<-10106, -4314>>, <<-7838, 6058>>>>,
       <<<<-1693, -7920>>, <<-11808, -1426>>, <<-5753, 7021>>, <<8180, 5854>>, <<10912, -3329>>, <<-1298, -7953>>, <<-11730, -1686>>, <<-6099, 6890>>>>
    >>

(***************************************************************************)
(* generatePositions (utils/math.ts).                                      *)
(***************************************************************************)
Templates == {"HEART", "FLOWER", "SATURN", "BUDDHA", "FIREWORKS"}

\* a value outside TemplateType, as an untyped caller can pass
UnknownTemplate == "NONE"

\* Mutant: the second BUDDHA threshold written as the segment's own share
\* (0.4) instead of the cumulative 0.7.
Branch_LegsShare(type, i, cnt) ==
    CASE type = "HEART"     -> "heart"
      [] type = "FLOWER"    -> "flower"
      [] type = "SATURN"    -> IF 10 * i < 6 * cnt THEN "sphere" ELSE "ring"
      [] type = "BUDDHA"    -> IF 10 * i < 3 * cnt THEN "head"
                               ELSE IF 10 * i < 4 * cnt THEN "legs"
                               ELSE "aura"
      [] type = "FIREWORKS" -> "fireworks"
      [] OTHER              -> "none"

\* Mutant: a `default:` label on the last case, so that an unrecognized
\* template is generated as FIREWORKS.
Branch_DefaultFireworks(type, i, cnt) ==
    CASE type = "HEART"     -> "heart"
      [] type = "FLOWER"    -> "flower"
      [] type = "SATURN"    -> IF 10 * i < 6 * cnt THEN "sphere" ELSE "ring"
      [] type = "BUDDHA"    -> IF 10 * i < 3 * cnt THEN "head"
                               ELSE IF 10 * i < 7 * cnt THEN "legs"
                               ELSE "aura"
      [] OTHER              -> "fireworks"

\* The branch of the switch that index i takes.  `i < count * 0.6` and
\* `i / count < 0.3`, `< 0.7` compare a double with an integer or a
\* quotient of integers; the double comparison agrees with the comparison
\* of the exact rationals written here (a product or quotient that is
\* exactly a threshold rounds to it, every other one is at least
\* 1/(10*count) away from it).
Branch(type, i, cnt) ==
    CASE type = "HEART"     -> "heart"
      [] type = "FLOWER"    -> "flower"
      [] type = "SATURN"    -> IF 10 * i < 6 * cnt THEN "sphere" ELSE "ring"
      [] type = "BUDDHA"    -> IF 10 * i < 3 * cnt THEN "head"
                               ELSE IF 10 * i < 7 * cnt THEN "legs"
                               ELSE "aura"
      [] type = "FIREWORKS" -> "fireworks"
      [] OTHER              -> "none"

\* Math.random() calls made by one iteration of a branch
Draws(branch) ==
    CASE branch = "heart"     -> 2
      [] branch = "ring"      -> 3
      [] branch = "head"      -> 2
      [] branch = "legs"      -> 1
      [] branch = "aura"      -> 2
      [] branch = "fireworks" -> 1
      [] OTHER                -> 0

\* <<x, y, z>> computed by one iteration of the loop body: index i of cnt,
\* n random calls made so far.
Point(type, i, cnt, seed, n) ==
    LET b  == Branch(type, i, cnt)
        r1 == Random(seed, n)
        r2 == Random(seed, n + 1)
        r3 == Random(seed, n + 2)
        d  == SphereDir[cnt][i + 1]
    IN  CASE b = "heart" ->
               \* angle = r1 * 2PI; scale 0.5; z = (r2 - 0.5) * 5
               << 8 * Scale * SinQ(r1) * SinQ(r1) * SinQ(r1),
                  (Scale * (13 * CosQ(r1) - 5 * CosQ(2 * r1)
                            - 2 * CosQ(3 * r1) - CosQ(4 * r1))) \div 2,
                  ((r2 - 2) * 5 * Scale) \div 4 >>
          [] b = "flower" -> FlowerTab[cnt][i + 1]
          [] b = "sphere" ->
               << RoundHalfEven(10 * Scale * d[1], DirScale),
                  RoundHalfEven(10 * Scale * d[2], DirScale),
                  RoundHalfEven(10 * Scale * d[3], DirScale) >>
          [] b = "ring" ->
               \* r = 14 + 8 * r1; angle = r2 * 2PI; y = (r3 - 0.5) * 0.5
               LET r == 14 * Scale + 2 * Scale * r1
               IN  << r * CosQ(r2), ((r3 - 2) * Scale) \div 8, r * SinQ(r2) >>
          [] b = "head" ->
               << ((r1 - 2) * 6 * Scale) \div 4,
                  RoundHalfEven(20 * Scale * i - 5 * Scale * cnt, cnt),
                  ((r2 - 2) * 4 * Scale) \div 4 >>
          [] b = "legs" ->
               << LegsTab[cnt][i + 1][1],
                  -10 * Scale + (2 * Scale * r1) \div 4,
                  LegsTab[cnt][i + 1][2] >>
          [] b = "aura" ->
               \* r = 15 + r1 * 5; a = r2 * PI
               LET r == 15 * Scale + (5 * Scale * r1) \div 4
               IN  << RoundHalfEven(r * Cos8(r2), DirScale),
                      RoundHalfEven(r * Sin8(r2), DirScale) - 5 * Scale,
                      -5 * Scale >>
          [] b = "fireworks" ->
               \* r = sqrt(r1) * 20
               LET r == (20 * Scale * SqrtQ(r1)) \div DirScale
               IN  << RoundHalfEven(r * d[1], DirScale),
                      RoundHalfEven(r * d[2], DirScale),
                      RoundHalfEven(r * d[3], DirScale) >>
          [] OTHER -> <<0, 0, 0>>

\* Mutant: the third store repeats the index of the second.
Stores_RepeatedIndex(i, p) ==
    << <<i * 3, p[1]>>, <<i * 3 + 1, p[2]>>, <<i * 3 + 1, p[3]>> >>

\* The three stores that end one iteration, as <<slot, value>> (slots
\* count from 0).
Stores(i, p) == << <<i * 3, p[1]>>, <<i * 3 + 1, p[2]>>, <<i * 3 + 2, p[3]>> >>

\* The loop `for (let i = 0; i < count; i++)`: the stores it makes, in
\* order, and the branch each index took.
RECURSIVE GenLoop(_, _, _, _, _, _)
GenLoop(type, cnt, seed, i, n, acc) ==
    IF ~(i < cnt) THEN acc
    ELSE GenLoop(type, cnt, seed, i + 1, n + Draws(Branch(type, i, cnt)),
                 [writes   |-> acc.writes \o Stores(i, Point(type, i, cnt, seed, n)),
                  branches |-> Append(acc.branches, Branch(type, i, cnt))])

\* A store into a typed array: an index outside the array is ignored.
RECURSIVE ApplyWrites(_, _)
ApplyWrites(arr, ws) ==
    IF ws = <<>> THEN arr
    ELSE LET w == Head(ws)
             a == IF w[1] + 1 \in DOMAIN arr
                  THEN [arr EXCEPT ![w[1] + 1] = w[2]] ELSE arr
         IN  ApplyWrites(a, Tail(ws))

\* generatePositions(type, count): `new Float32Array(count * 3)` throws a
\* RangeError for a negative length; otherwise the zero-filled array after
\* the loop's stores.
generatePositions(type, cnt, seed) ==
    IF cnt < 0
    THEN [error |-> TRUE, positions |-> <<>>, writes |-> <<>>, branches |-> <<>>]
    ELSE LET run == GenLoop(type, cnt, seed, 0, 0,
                            [writes |-> <<>>, branches |-> <<>>])
         IN  [error     |-> FALSE,
              positions |-> ApplyWrites(Zeros(cnt * 3), run.writes),
              writes    |-> run.writes,
              branches  |-> run.branches]


(***************************************************************************)
(* State.                                                                  *)
(***************************************************************************)
VARIABLES
    \* App (App.tsx)
    template,          \* useState<TemplateType>('BUDDHA')
    color,             \* useState('#6366f1')
    gesture,           \* useState<GestureState>: the gesture slot
    isCameraActive,    \* useState(false)
    geminiRef,         \* geminiRef.current: "null" or "connected"
    \* ParticleSystem (components/ParticleSystem)
    attached,          \* pointsRef.current is the <points> object
    currentPositions,  \* useMemo(generatePositions(template, count))
    live,              \* the position attribute's array (initialPositions)
    target,            \* targetPositions
    liveBuf,           \* which Float32Array object the attribute holds
    targetBuf,         \* which Float32Array object the frame step eases to
    scale,             \* pointsRef.current.scale (uniform), Scale = 1.0
    rotY,              \* pointsRef.current.rotation.y, Scale = 1 rad
    rotZ,              \* pointsRef.current.rotation.z
    frames,            \* frame callbacks that ran the update
    \* history
    lastOp,            \* the operation that produced this state
    delivered,         \* the last GestureState handed to onGestureUpdate
    used,              \* the GestureState the last frame step read
    since,             \* reports delivered since the last frame step (capped at 2)
    coalesced,         \* the last frame step came after two or more reports
    clock,             \* state.clock.getElapsedTime() at the last frame callback
    live0,             \* the live buffer the easing-only run started from
    rotSum,            \* the sum of gesture.rotation over the frame steps run
    xform,             \* the transform writes of the last frame step, in order
    \* GeminiGestureService (services/geminiService) and its browser timers
    sessionPromise,    \* this.sessionPromise: 0 (null) or the latest session
    sessions,          \* each live session's connection state
    closePending,      \* sessions with a then(session => session.close()) waiting
    streamInterval,    \* this.streamInterval: 0 (null) or a timer id
    timers,            \* the interval timers that are running
    nextTimer,         \* the id the next window.setInterval returns
    disconnected,      \* disconnect() was called and connect() not since
    tickedAfter,       \* an interval callback ran while disconnected
    \* one call of generatePositions
    gType, gCount, gSeed, gDone, gOut

appVars  == <<template, color, gesture, isCameraActive, geminiRef>>
partVars == <<attached, currentPositions, live, target, liveBuf, targetBuf,
              scale, rotY, rotZ, frames>>
histVars == <<lastOp, delivered, used, since, coalesced, clock, live0>>
genVars  == <<gType, gCount, gSeed, gDone, gOut>>
xfVars   == <<rotSum, xform>>
svcVars  == <<sessionPromise, sessions, closePending, streamInterval, timers,
              nextTimer, disconnected, tickedAfter>>
vars     == <<appVars, partVars, histVars, genVars, xfVars, svcVars>>

Slots == 1..(3 * count)

\* { expansion: 0, rotation: 0, isDetected: false }
DefaultGesture == [expansion |-> 0, rotation |-> 0, isDetected |-> FALSE]

\* GestureState values a report carries (expansion, rotation in Units)
GestureVals ==
    { [expansion |-> Scale,        rotation |-> Scale,  isDetected |-> TRUE],
      [expansion |-> Scale \div 2, rotation |-> -Scale, isDetected |-> TRUE],
      [expansion |-> 0,            rotation |-> 0,      isDetected |-> FALSE] }

Colors == {"#6366f1", "#ff0000"}

NoGen == [error |-> FALSE, positions |-> <<>>, writes |-> <<>>, branches |-> <<>>]

(***************************************************************************)
(* The frame step (useFrame callback).                                     *)
(***************************************************************************)
\* round(Scale * 0.02 * sin(k)) and round(Scale * 0.02 * cos(k)), k = 0..11
JitterSin == <<0, 17, 18, 3, -15, -19, -6, 13, 20, 8, -11, -20>>
JitterCos == <<20, 11, -8, -20, -13, 6, 19, 15, -3, -18, -17, 0>>

\* Mutant: the easing term subtracted instead of added.
Lerp_WrongSign(p, t) == RoundHalfEven(10 * p - (t - p), 10)

\* positions[s] += (t - positions[s]) * 0.1, stored as float32
Lerp(p, t) == RoundHalfEven(10 * p + (t - p), 10)

\* the jitter added to coordinate c (0: x, 1: y, 2: z) of particle i
Jitter(c, time, i) ==
    CASE c = 0 -> JitterSin[time + i + 1]
      [] c = 1 -> JitterCos[time + i + 1]
      [] OTHER -> 0

\* Mutant: the jitter added before the easing.
Animate_JitterFirst(lv, tg, time) ==
    [s \in DOMAIN lv |->
        LET i == (s - 1) \div 3
            c == (s - 1) % 3
        IN  RoundHalfEven(10 * (lv[s] + Jitter(c, time, i))
                            + (tg[s] - (lv[s] + Jitter(c, time, i))), 10)]

\* the loop over the particles: ease, then jitter
Animate(lv, tg, time) ==
    [s \in DOMAIN lv |->
        LET i == (s - 1) \div 3
            c == (s - 1) % 3
        IN  Lerp(lv[s], tg[s]) + Jitter(c, time, i)]

\* the loop with the jitter amplitude 0: the easing alone
Ease(lv, tg) == [s \in DOMAIN lv |-> Lerp(lv[s], tg[s])]

\* scale.setScalar(1 + gesture.expansion * 2.5)
ScaleOf(g) == Scale + (5 * g.expansion) \div 2

\* Mutant: the gesture signal replacing the idle spin instead of adding to it.
RotYStep_GestureReplacesSpin(g) ==
    IF g.rotation # 0 THEN (5 * g.rotation) \div 100 ELSE (2 * Scale) \div 1000

\* rotation.y += 0.002 + gesture.rotation * 0.05
RotYStep(g) == (2 * Scale) \div 1000 + (5 * g.rotation) \div 100

\* rotation.z += 0.001
RotZStep == Scale \div 1000

\* the statements that write the rigid transform, in program order
TransformWrites == <<"scale", "rotation.y", "rotation.z">>

\* Mutant: the two buffers exchanged, so that the step eases the target
\* buffer toward the live one.
FrameStep_WritesTarget(time) ==
    /\ frames < MaxFrames
    /\ time >= clock
    /\ clock' = time
    /\ IF ~attached
       THEN /\ lastOp' = "FrameSkipped"
            /\ UNCHANGED <<partVars, used, since, coalesced, xfVars>>
       ELSE /\ target' = Animate(target, live, time)
            /\ scale' = ScaleOf(gesture)
            /\ rotY' = rotY + RotYStep(gesture)
            /\ rotZ' = rotZ + RotZStep
            /\ frames' = frames + 1
            /\ used' = gesture
            /\ rotSum' = rotSum + gesture.rotation
            /\ xform' = TransformWrites
            /\ since' = 0
            /\ coalesced' = (since >= 2)
            /\ lastOp' = "FrameStep"
            /\ UNCHANGED <<attached, currentPositions, live, liveBuf, targetBuf>>
    /\ UNCHANGED <<appVars, delivered, live0, genVars, svcVars>>

FrameStep(time) ==
    /\ frames < MaxFrames
    /\ time >= clock
    /\ clock' = time
    /\ IF ~attached
       THEN \* if (!pointsRef.current) return;
            /\ lastOp' = "FrameSkipped"
            /\ UNCHANGED <<partVars, used, since, coalesced, xfVars>>
       ELSE /\ live' = Animate(live, target, time)
            /\ scale' = ScaleOf(gesture)
            /\ rotY' = rotY + RotYStep(gesture)
            /\ rotZ' = rotZ + RotZStep
            /\ frames' = frames + 1
            /\ used' = gesture
            /\ rotSum' = rotSum + gesture.rotation
            /\ xform' = TransformWrites
            /\ since' = 0
            /\ coalesced' = (since >= 2)
            /\ lastOp' = "FrameStep"
            /\ UNCHANGED <<attached, currentPositions, target, liveBuf, targetBuf>>
    /\ UNCHANGED <<appVars, delivered, live0, genVars, svcVars>>

(***************************************************************************)
(* ParticleSystem render, commit and effect.                               *)
(***************************************************************************)
\* TypedArray.prototype.set: copies src over the start of dst
TypedArraySet(dst, src) ==
    [s \in DOMAIN dst |-> IF s \in DOMAIN src THEN src[s] ELSE dst[s]]

\* Mutant: the generated array itself taken as the target buffer, a new
\* buffer at every template change.
SyncTarget_Alias(cur) == [buf |-> "currentPositions", data |-> cur]

\* useEffect(() => targetPositions.set(currentPositions)): the buffer the
\* frame step eases to, and its contents, after the effect
SyncTarget(cur) ==
    [buf |-> "targetPositions", data |-> TypedArraySet(target, cur)]

\* generatePositions(t, count) for each template and random stream
Shapes ==
    [t \in Templates |->
        [seed \in Seeds |-> generatePositions(t, count, seed).positions]]

\* the first commit: the <points> ref is attached, the position attribute
\* takes initialPositions, the effect copies the first shape
Mount ==
    /\ ~attached
    /\ attached' = TRUE
    /\ liveBuf' = "initialPositions"
    /\ target' = SyncTarget(currentPositions).data
    /\ targetBuf' = SyncTarget(currentPositions).buf
    /\ lastOp' = "Mount"
    /\ UNCHANGED <<appVars, currentPositions, live, scale, rotY, rotZ, frames,
                   delivered, used, since, coalesced, clock, live0, genVars,
                   xfVars, svcVars>>

\* Mutant: the template switch also snaps the live buffer to the new shape.
SelectTemplate_SnapsLive(t, seed) ==
    /\ attached
    /\ lastOp' = "SelectTemplate"
    /\ IF t = template
       THEN UNCHANGED <<template, currentPositions, target, targetBuf, live>>
       ELSE LET cur == Shapes[t][seed]
            IN  /\ template' = t
                /\ currentPositions' = cur
                /\ target' = SyncTarget(cur).data
                /\ targetBuf' = SyncTarget(cur).buf
                /\ live' = cur
    /\ UNCHANGED <<color, gesture, isCameraActive, geminiRef, attached,
                   liveBuf, scale, rotY, rotZ, frames, delivered, used, since,
                   coalesced, clock, live0, genVars, xfVars, svcVars>>

\* onClick={() => setTemplate(t.type)}, the re-render it causes (useMemo
\* regenerates currentPositions when template changed) and the effect
SelectTemplate(t, seed) ==
    /\ attached
    /\ lastOp' = "SelectTemplate"
    /\ IF t = template
       THEN UNCHANGED <<template, currentPositions, target, targetBuf>>
       ELSE LET cur == Shapes[t][seed]
            IN  /\ template' = t
                /\ currentPositions' = cur
                /\ target' = SyncTarget(cur).data
                /\ targetBuf' = SyncTarget(cur).buf
    /\ UNCHANGED <<color, gesture, isCameraActive, geminiRef, attached, live, liveBuf, scale, rotY, rotZ,
                   frames, delivered, used, since, coalesced, clock, live0,
                   genVars, xfVars, svcVars>>

\* onChange={(e) => setColor(e.target.value)}: a re-render with the same
\* template, so neither the memo nor the effect runs again
SetColor(c) ==
    /\ attached
    /\ color' = c
    /\ lastOp' = "SetColor"
    /\ UNCHANGED <<template, gesture, isCameraActive, geminiRef, partVars,
                   delivered, used, since, coalesced, clock, live0, genVars,
                   xfVars, svcVars>>

(***************************************************************************)
(* The camera button and the gesture service (App.tsx, geminiService).     *)
(***************************************************************************)
\* startCamera: getUserMedia resolves (ok) or rejects (the catch alerts).
\* The service is created and connected only under `if (videoRef.current)`;
\* the <video> element is rendered only while isCameraActive.
VideoMounted == isCameraActive

StartCamera(ok) ==
    /\ attached
    /\ ~isCameraActive
    /\ IF ok /\ VideoMounted
       THEN /\ isCameraActive' = TRUE
            /\ geminiRef' = "connected"
       ELSE UNCHANGED <<isCameraActive, geminiRef>>
    /\ lastOp' = "StartCamera"
    /\ UNCHANGED <<template, color, gesture, partVars, delivered, used, since,
                   coalesced, clock, live0, genVars, xfVars, svcVars>>

\* the function calls a tool-call message can carry
Calls ==
    { [name |-> "updateGesture", args |-> g] : g \in GestureVals }
      \cup { [name |-> "other", args |-> DefaultGesture] }

RECURSIVE SeqsUpTo(_, _)
SeqsUpTo(S, n) ==
    IF n = 0 THEN { <<>> }
    ELSE LET shorter == SeqsUpTo(S, n - 1)
         IN  shorter \cup { Append(q, x) : q \in shorter, x \in S }

Messages == SeqsUpTo(Calls, MaxCalls)

\* Mutant: a report without detected hands is dropped.
SetGesture_DropUndetected(g, state) == IF state.isDetected THEN state ELSE g

\* (state) => { setGesture(state); }: the slot after the callback
SetGesture(g, state) == state

\* for (const fc of message.toolCall.functionCalls)
\*   if (fc.name === 'updateGesture') this.onGestureUpdate(fc.args)
RECURSIVE OnToolCall(_, _)
OnToolCall(calls, g) ==
    IF calls = <<>> THEN g
    ELSE OnToolCall(Tail(calls),
                    IF Head(calls).name = "updateGesture"
                    THEN SetGesture(g, Head(calls).args) ELSE g)

\* the reports (updateGesture calls) of a message, in order
Reports(calls) == SelectSeq(calls, LAMBDA fc : fc.name = "updateGesture")

\* onmessage of the live session, and the re-render setGesture causes
OnMessage(calls) ==
    /\ geminiRef = "connected"
    /\ gesture' = OnToolCall(calls, gesture)
    /\ delivered' = IF Reports(calls) = <<>> THEN delivered
                    ELSE Reports(calls)[Len(Reports(calls))].args
    /\ since' = IF since + Len(Reports(calls)) >= 2 THEN 2
                ELSE since + Len(Reports(calls))
    /\ lastOp' = "OnMessage"
    /\ UNCHANGED <<template, color, isCameraActive, geminiRef, partVars, used,
                   coalesced, clock, live0, genVars, xfVars, svcVars>>

(***************************************************************************)
(* GeminiGestureService: connect, the session callbacks, the streaming     *)
(* timer and disconnect.  A session is "connecting" until its onopen, and  *)
(* the promise connect() stored resolves right after onopen returns.       *)
(***************************************************************************)
Sessions == 1..MaxSessions

\* sessions created so far
Created == { s \in Sessions : sessions[s] # "none" }

\* this.sessionPromise = ai.live.connect({ ..., callbacks })
Connect ==
    /\ Cardinality(Created) < MaxSessions
    /\ LET s == Cardinality(Created) + 1
       IN  /\ sessions' = [sessions EXCEPT ![s] = "connecting"]
           /\ sessionPromise' = s
    /\ disconnected' = FALSE
    /\ lastOp' = "Connect"
    /\ UNCHANGED <<closePending, streamInterval, timers, nextTimer, tickedAfter>>
    /\ UNCHANGED <<appVars, partVars, delivered, used, since, coalesced, clock,
                   live0, genVars, xfVars>>

\* if (this.streamInterval) clearInterval(this.streamInterval);
ClearStreamInterval == timers \ {streamInterval}

\* startStreaming(video): clear the timer the field names, start a new one
startStreaming ==
    /\ timers' = ClearStreamInterval \cup {nextTimer}
    /\ streamInterval' = nextTimer
    /\ nextTimer' = nextTimer + 1

\* onopen of session s, then the then-callbacks waiting on its promise
OnOpen(s) ==
    /\ sessions[s] = "connecting"
    /\ startStreaming
    /\ sessions' = [sessions EXCEPT
                       ![s] = IF s \in closePending THEN "closing" ELSE "open"]
    /\ closePending' = closePending \ {s}
    /\ lastOp' = "OnOpen"
    /\ UNCHANGED <<sessionPromise, disconnected, tickedAfter>>
    /\ UNCHANGED <<appVars, partVars, delivered, used, since, coalesced, clock,
                   live0, genVars, xfVars>>

\* onclose of session s: the socket closed, by either side or on failure
OnClose(s) ==
    /\ sessions[s] \in {"connecting", "open", "closing"}
    /\ sessions' = [sessions EXCEPT ![s] = "closed"]
    /\ timers' = ClearStreamInterval
    /\ lastOp' = "OnClose"
    /\ UNCHANGED <<sessionPromise, closePending, streamInterval, nextTimer,
                   disconnected, tickedAfter>>
    /\ UNCHANGED <<appVars, partVars, delivered, used, since, coalesced, clock,
                   live0, genVars, xfVars>>

\* disconnect(): clear the timer, close the session once its promise resolves
Disconnect ==
    /\ timers' = ClearStreamInterval
    /\ IF sessionPromise = 0
       THEN UNCHANGED <<sessions, closePending>>
       ELSE CASE sessions[sessionPromise] = "connecting" ->
                    /\ closePending' = closePending \cup {sessionPromise}
                    /\ UNCHANGED sessions
              [] sessions[sessionPromise] = "open" ->
                    /\ sessions' = [sessions EXCEPT ![sessionPromise] = "closing"]
                    /\ UNCHANGED closePending
              [] OTHER -> UNCHANGED <<sessions, closePending>>
    /\ disconnected' = TRUE
    /\ lastOp' = "Disconnect"
    /\ UNCHANGED <<sessionPromise, streamInterval, nextTimer, tickedAfter>>
    /\ UNCHANGED <<appVars, partVars, delivered, used, since, coalesced, clock,
                   live0, genVars, xfVars>>

\* the interval callback of a running timer: one video frame for the session
Tick(t) ==
    /\ t \in timers
    /\ tickedAfter' = (tickedAfter \/ disconnected)
    /\ lastOp' = "Tick"
    /\ UNCHANGED <<sessionPromise, sessions, closePending, streamInterval,
                   timers, nextTimer, disconnected>>
    /\ UNCHANGED <<appVars, partVars, delivered, used, since, coalesced, clock,
                   live0, genVars, xfVars>>

(***************************************************************************)
(* The application: Init is the state after the first render, before the   *)
(* first commit.                                                           *)
(***************************************************************************)
InitGenIdle ==
    /\ gType = UnknownTemplate
    /\ gCount = 0
    /\ gSeed = <<0, 1>>
    /\ gDone = FALSE
    /\ gOut = NoGen

InitHist ==
    /\ lastOp = "init"
    /\ delivered = DefaultGesture
    /\ used = DefaultGesture
    /\ since = 0
    /\ coalesced = FALSE
    /\ clock = 0
    /\ live0 = Zeros(3 * count)

\* no frame has run
InitTransformLog ==
    /\ rotSum = 0
    /\ xform = <<>>

\* new GeminiGestureService(cb): no session, no timer
InitService ==
    /\ sessionPromise = 0
    /\ sessions = [s \in Sessions |-> "none"]
    /\ closePending = {}
    /\ streamInterval = 0
    /\ timers = {}
    /\ nextTimer = 1
    /\ disconnected = FALSE
    /\ tickedAfter = FALSE

\* the service after connect() and the session's onopen
InitServiceOpen ==
    /\ sessionPromise = 1
    /\ sessions = [s \in Sessions |-> IF s = 1 THEN "open" ELSE "none"]
    /\ closePending = {}
    /\ streamInterval = 1
    /\ timers = {1}
    /\ nextTimer = 2
    /\ disconnected = FALSE
    /\ tickedAfter = FALSE

InitParticles ==
    /\ attached = FALSE
    /\ currentPositions \in
          { Shapes["BUDDHA"][seed] : seed \in Seeds }
    /\ live = Zeros(3 * count)
    /\ target = Zeros(3 * count)
    /\ liveBuf = "initialPositions"
    /\ targetBuf = "targetPositions"
    /\ scale = Scale
    /\ rotY = 0
    /\ rotZ = 0
    /\ frames = 0

Init ==
    /\ template = "BUDDHA"
    /\ color = "#6366f1"
    /\ gesture = DefaultGesture
    /\ isCameraActive = FALSE
    /\ geminiRef = "null"
    /\ InitParticles
    /\ InitHist
    /\ InitGenIdle
    /\ InitTransformLog
    /\ InitService

Next ==
    \/ Mount
    \/ \E t \in Templates, seed \in Seeds : SelectTemplate(t, seed)
    \/ \E c \in Colors : SetColor(c)
    \/ \E ok \in BOOLEAN : StartCamera(ok)
    \/ \E time \in 0..MaxTime : FrameStep(time)

Spec == Init /\ [][Next]_vars

(***************************************************************************)
(* The gesture path on its own: a GeminiGestureService constructed with    *)
(* the App's callback and connected, delivering tool-call messages while   *)
(* frames run.                                                             *)
(***************************************************************************)
InitGesture ==
    /\ template = "BUDDHA"
    /\ color = "#6366f1"
    /\ gesture = DefaultGesture
    /\ isCameraActive = TRUE
    /\ geminiRef = "connected"
    /\ InitParticles
    /\ InitHist
    /\ InitGenIdle
    /\ InitTransformLog
    /\ InitServiceOpen

NextGesture ==
    \/ Mount
    \/ \E c \in Colors : SetColor(c)
    \/ \E m \in Messages : OnMessage(m)
    \/ \E time \in 0..MaxTime : FrameStep(time)

SpecGesture == InitGesture /\ [][NextGesture]_vars

(***************************************************************************)
(* One GeminiGestureService driven through every interleaving of           *)
(* connect(), the sessions' onopen and onclose, the timer callback and     *)
(* disconnect().                                                           *)
(***************************************************************************)
NextService ==
    \/ Connect
    \/ \E s \in Sessions : OnOpen(s)
    \/ \E s \in Sessions : OnClose(s)
    \/ Disconnect
    \/ \E t \in 1..MaxSessions : Tick(t)

SpecService == Init /\ [][NextService]_vars

(***************************************************************************)
(* generatePositions as a function: one call on each input.                *)
(***************************************************************************)
InitGen ==
    /\ Init!1 /\ Init!2 /\ Init!3 /\ Init!4 /\ Init!5
    /\ InitParticles
    /\ InitHist
    /\ gType \in Templates \cup {UnknownTemplate}
    /\ gCount \in -1..MaxCount
    /\ gSeed \in Seeds
    /\ gDone = FALSE
    /\ gOut = NoGen
    /\ InitTransformLog
    /\ InitService

Generate ==
    /\ ~gDone
    /\ gDone' = TRUE
    /\ gOut' = generatePositions(gType, gCount, gSeed)
    /\ UNCHANGED <<gType, gCount, gSeed, appVars, partVars, histVars, xfVars,
                   svcVars>>

NextGen == Generate

SpecGen == InitGen /\ [][NextGen]_vars

(***************************************************************************)
(* The frame step as a function of its buffers: step(live, target,         *)
(* gesture, elapsedTime) from bounded starting buffers.                    *)
(***************************************************************************)
\* a buffer whose every particle has the coordinates v
Uniform(v) == [s \in Slots |-> v[((s - 1) % 3) + 1]]

StepLive ==
    { Uniform(v) : v \in { <<0, 0, 0>>, <<-3 * Scale, 7, 2 * Scale>>, <<Scale, -20, 5>> } }

StepTarget ==
    { Uniform(v) : v \in { <<10 * Scale, 0, 0>>, <<0, 0, 0>>, <<-Scale, 5, 3>> } }

InitStep ==
    /\ template = "BUDDHA"
    /\ color = "#6366f1"
    /\ gesture \in GestureVals \cup {DefaultGesture}
    /\ isCameraActive = FALSE
    /\ geminiRef = "null"
    /\ attached = TRUE
    /\ live \in StepLive
    /\ target \in StepTarget
    /\ currentPositions = target
    /\ liveBuf = "initialPositions"
    /\ targetBuf = "targetPositions"
    /\ scale = Scale
    /\ rotY = 0
    /\ rotZ = 0
    /\ frames = 0
    /\ InitHist
    /\ InitGenIdle
    /\ InitTransformLog
    /\ InitService

NextStep == \E time \in 0..MaxTime : FrameStep(time)

SpecStep == InitStep /\ [][NextStep]_vars

(***************************************************************************)
(* The easing alone (the jitter amplitude set to 0), target held fixed,    *)
(* from every starting distance up to LerpSpan Units on either side.       *)
(***************************************************************************)
EaseStep ==
    /\ frames < LerpSpan
    /\ live' = Ease(live, target)
    /\ frames' = frames + 1
    /\ lastOp' = "EaseStep"
    /\ UNCHANGED <<appVars, attached, currentPositions, target, liveBuf,
                   targetBuf, scale, rotY, rotZ, delivered, used, since,
                   coalesced, clock, live0, genVars, xfVars, svcVars>>

InitLerp ==
    /\ template = "BUDDHA"
    /\ color = "#6366f1"
    /\ gesture = DefaultGesture
    /\ isCameraActive = FALSE
    /\ geminiRef = "null"
    /\ attached = TRUE
    /\ \E t \in {-1, 0, 100}, a \in -LerpSpan..LerpSpan, b \in -LerpSpan..LerpSpan :
          /\ target = [s \in Slots |-> t]
          /\ live = [s \in Slots |-> IF s % 2 = 1 THEN t + a ELSE t + b]
    /\ currentPositions = target
    /\ liveBuf = "initialPositions"
    /\ targetBuf = "targetPositions"
    /\ scale = Scale
    /\ rotY = 0
    /\ rotZ = 0
    /\ frames = 0
    /\ lastOp = "init"
    /\ delivered = DefaultGesture
    /\ used = DefaultGesture
    /\ since = 0
    /\ coalesced = FALSE
    /\ clock = 0
    /\ live0 = live
    /\ InitGenIdle
    /\ InitTransformLog
    /\ InitService

NextLerp == EaseStep

SpecLerp == InitLerp /\ [][NextLerp]_vars

(***************************************************************************)
(* Properties.                                                             *)
(***************************************************************************)
\* the indices 1..Len(bs) of the sequence bs that took branch b
Routed(bs, b) == { k \in 1..Len(bs) : bs[k] = b }

\* the order of the branches of a template in the index range
BranchOrder(type) ==
    IF type = "SATURN" THEN <<"sphere", "ring">> ELSE <<"head", "legs", "aura">>

\* tenths of the count each branch is documented to take
BranchTenths(type) == IF type = "SATURN" THEN <<6, 4>> ELSE <<3, 4, 3>>

\* C1: for SATURN and BUDDHA and every count > 0, each index 0..count-1
\* takes exactly one of the template's branches, the branches are
\* contiguous index ranges in the documented order, and the number of
\* indices in each branch is floor(count * fraction) give or take 1.
C1_SegmentPartition ==
    (gDone /\ gType \in {"SATURN", "BUDDHA"} /\ gCount > 0) =>
        LET bs    == gOut.branches
            order == BranchOrder(gType)
            rank  == [k \in 1..Len(bs) |->
                         CHOOSE r \in 1..Len(order) : order[r] = bs[k]]
        IN  /\ Len(bs) = gCount
            /\ \A k \in 1..Len(bs) : \E r \in 1..Len(order) : order[r] = bs[k]
            /\ \A j, k \in 1..Len(bs) : j < k => rank[j] <= rank[k]
            /\ \A r \in 1..Len(order) :
                  Abs(Cardinality(Routed(bs, order[r]))
                        - ((gCount * BranchTenths(gType)[r]) \div 10)) <= 1

C1_Witness ==
    /\ gDone
    /\ gType = "BUDDHA"
    /\ gCount >= 5
    /\ \A r \in 1..3 : Cardinality(Routed(gOut.branches, BranchOrder("BUDDHA")[r])) >= 1

\* C2: for every recognized template and count > 0 the result has length
\* 3*count, and the loop stores into slots 0, 1, ..., 3*count-1 once each,
\* in that order, and into no other slot; the result holds what was stored.
C2_EverySlotOnce ==
    (gDone /\ gType \in Templates /\ gCount > 0) =>
        /\ ~gOut.error
        /\ Len(gOut.positions) = 3 * gCount
        /\ Len(gOut.writes) = 3 * gCount
        /\ \A k \in 1..Len(gOut.writes) :
              /\ gOut.writes[k][1] = k - 1
              /\ k \in DOMAIN gOut.positions
              /\ gOut.positions[k] = gOut.writes[k][2]

C2_Witness ==
    /\ gDone
    /\ gType = "HEART"
    /\ gCount = MaxCount
    /\ Len(gOut.positions) = 3 * MaxCount
    /\ \E k \in DOMAIN gOut.positions : gOut.positions[k] # 0

\* C3: for a template outside the five recognized ones (and a count for
\* which an array exists) generatePositions raises no error and returns
\* 3*count coordinates, all zero.
C3_UnknownTemplateZero ==
    (gDone /\ gType \notin Templates /\ gCount >= 0) =>
        /\ ~gOut.error
        /\ Len(gOut.positions) = 3 * gCount
        /\ \A k \in DOMAIN gOut.positions : gOut.positions[k] = 0

C3_Witness ==
    /\ gDone
    /\ gType = UnknownTemplate
    /\ gCount = MaxCount
    /\ ~gOut.error
    /\ gOut.positions = Zeros(3 * MaxCount)

\* C4: generatePositions called with count <= 0 fails with an error.
C4_NonPositiveCountFails == (gDone /\ gCount <= 0) => gOut.error

\* C5: in every reachable state the live and the target buffer have length
\* 3*count and the same index range, and they are the two Float32Arrays
\* allocated at the first render (never replaced by another array).
C5_BuffersFixed ==
    /\ Len(live) = 3 * count
    /\ Len(target) = 3 * count
    /\ DOMAIN live = DOMAIN target
    /\ liveBuf = "initialPositions"
    /\ targetBuf = "targetPositions"

C5_Witness ==
    /\ template # "BUDDHA"
    /\ color # "#6366f1"
    /\ frames = MaxFrames
    /\ lastOp = "SelectTemplate"
    /\ Len(live) = 3 * count
    /\ target = currentPositions

\* the shapes generatePositions can return for template t
ShapesOf(t) == { Shapes[t][seed] : seed \in Seeds }

\* C6: a step that changes the template leaves the live buffer as it was
\* and makes the target buffer, in full, a newly generated shape of the new
\* template; the live buffer changes in frame steps only.
C6_SwitchReplacesTargetOnly ==
    [][ /\ (template' # template) =>
              /\ live' = live
              /\ target' \in ShapesOf(template')
              /\ UNCHANGED <<liveBuf, targetBuf, scale, rotY, rotZ>>
        /\ (live' # live) => (lastOp' = "FrameStep" /\ frames' = frames + 1)
      ]_vars

C6_Witness ==
    /\ lastOp = "SelectTemplate"
    /\ template = "SATURN"
    /\ target \in ShapesOf("SATURN")
    /\ frames >= 1
    /\ live # Zeros(3 * count)
    /\ live # target

\* C7: a frame step leaves the target buffer, the gesture slot and the rest
\* of the App state as they were, and a frame callback that finds
\* pointsRef.current null changes nothing of the particle system either.
C7_StepWritesLiveOnly ==
    [][ /\ (lastOp' = "FrameStep" /\ frames' = frames + 1) =>
              UNCHANGED <<appVars, attached, currentPositions, target,
                          liveBuf, targetBuf>>
        /\ (lastOp' = "FrameSkipped" /\ ~attached) =>
              UNCHANGED <<appVars, partVars>>
      ]_vars

C7_Witness ==
    /\ lastOp = "FrameStep"
    /\ frames = MaxFrames
    /\ live # Zeros(3 * count)
    /\ target = currentPositions
    /\ target # live

\* distance of slot s of buffer lv to the target
Dist(lv, s) == Abs(target[s] - lv[s])

Max(a, b) == IF a > b THEN a ELSE b

\* C8 (as amended): with the target fixed and no jitter, a step never
\* moves a coordinate away from its target or across it, keeps an equal
\* coordinate equal, multiplies the difference by 0.9 to within half a
\* Unit, and strictly decreases every difference of more than 5 Units; so
\* n steps bring a coordinate that started d Units away to within
\* max(5, d - n) Units.
C8_EasesToWithinFiveUnits ==
    /\ [][ (lastOp' = "EaseStep" /\ frames' = frames + 1) =>
             \A s \in Slots :
                LET d  == target[s] - live[s]
                    d2 == target'[s] - live'[s]
                IN  /\ (d = 0) => (d2 = 0)
                    /\ (d > 0) => (0 <= d2 /\ d2 <= d)
                    /\ (d < 0) => (d <= d2 /\ d2 <= 0)
                    /\ (Abs(d) > 5) => (Abs(d2) < Abs(d))
                    /\ Abs(10 * d2 - 9 * d) <= 5
         ]_vars
    /\ [](\A s \in Slots : Dist(live, s) <= Max(5, Dist(live0, s) - frames))

C8_Witness ==
    /\ lastOp = "EaseStep"
    /\ \E s \in Slots :
          /\ Dist(live0, s) = LerpSpan
          /\ Dist(live, s) \in 1..5
    /\ \E s \in Slots : live0[s] = target[s] /\ live[s] = target[s]

\* C8 as stated: every step strictly decreases the distance of every
\* coordinate that differs from its target.
C8_StrictlyCloserEveryStep ==
    [][ (lastOp' = "EaseStep" /\ frames' = frames + 1) =>
          \A s \in Slots :
             (live[s] # target[s]) => (Dist(live', s) < Dist(live, s))
      ]_vars

\* C9: a frame step moves x, y and z of every particle i by a tenth of the
\* difference to the target (to within the rounding of the store) and then
\* adds 0.02*sin(t+i) to x and 0.02*cos(t+i) to y, nothing to z; from
\* live = [0,0,0], target = [10,0,0] at t = 0 particle 0 ends at
\* [1.0, 0.02, 0.0].
C9_EaseThenJitter ==
    [][ (lastOp' = "FrameStep" /\ frames' = frames + 1) =>
          \A i \in 0..(count - 1) :
             LET x == 3 * i + 1
                 y == 3 * i + 2
                 z == 3 * i + 3
                 t == clock'
             IN  /\ Abs(10 * (live'[x] - JitterSin[t + i + 1])
                          - (9 * live[x] + target[x])) <= 5
                 /\ Abs(10 * (live'[y] - JitterCos[t + i + 1])
                          - (9 * live[y] + target[y])) <= 5
                 /\ Abs(10 * live'[z] - (9 * live[z] + target[z])) <= 5
                 /\ ( /\ i = 0 /\ t = 0
                      /\ <<live[x], live[y], live[z]>> = <<0, 0, 0>>
                      /\ <<target[x], target[y], target[z]>> = <<10 * Scale, 0, 0>> )
                    => <<live'[x], live'[y], live'[z]>> = <<Scale, Scale \div 50, 0>>
      ]_vars

C9_Witness ==
    /\ lastOp = "FrameStep"
    /\ frames = 1
    /\ clock = 0
    /\ gesture = DefaultGesture
    /\ <<target[1], target[2], target[3]>> = <<10 * Scale, 0, 0>>
    /\ <<live[1], live[2], live[3]>> = <<Scale, Scale \div 50, 0>>

IndexOf(ws, w) ==
    IF \E k \in DOMAIN ws : ws[k] = w
    THEN CHOOSE k \in DOMAIN ws : ws[k] = w
    ELSE 0

\* C11: after n frame steps run with the gesture snapshots g1..gn, the scale
\* is 1 + 2.5 * gn.expansion (1 before the first step), the rotation about
\* the first axis is the sum of 0.002 + 0.05 * gk.rotation, the rotation
\* about the second axis is 0.001 * n whatever the gestures were, and each
\* step wrote the scale before the two rotations.
C11_RigidTransform ==
    /\ 2 * scale = 2 * Scale + 5 * (IF frames = 0 THEN 0 ELSE used.expansion)
    /\ 1000 * rotY = 2 * Scale * frames + 50 * rotSum
    /\ 1000 * rotZ = Scale * frames
    /\ frames > 0 =>
          /\ IndexOf(xform, "scale") > 0
          /\ IndexOf(xform, "scale") < IndexOf(xform, "rotation.y")
          /\ IndexOf(xform, "scale") < IndexOf(xform, "rotation.z")

\* two frame steps whose snapshots differ: the first read rotation 1 and
\* the second read expansion 0.5 and rotation -1
C11_Witness ==
    /\ frames = 2
    /\ used.expansion = Scale \div 2
    /\ used.rotation = -Scale
    /\ rotSum = 0

\* C12: on one GeminiGestureService at most one frame-streaming timer runs
\* at any time, and from a disconnect() on (until the service is connected
\* again) no frame-streaming timer runs.
C12_OneTimerNoneAfterDisconnect ==
    /\ Cardinality(timers) <= 1
    /\ disconnected => timers = {}


=============================================================================
